---- MODULE Spec2Model ----
(***************************************************************************)
(* Model of app.py: a Flask service that proxies the Quotex client behind  *)
(* /candles, /api/candles/<asset> and /health, with a process-wide         *)
(* connection_pool, a per-request deadline (async_endpoint) and a periodic *)
(* sweep of stale pool entries (cleanup_connections).                      *)
(*                                                                         *)
(* Requests run on server threads (slots); each shared access to           *)
(* connection_pool is one step, so threads and the sweep thread interleave *)
(* between them.  Time is a discrete clock in seconds.  Local computation  *)
(* takes no time: the clock advances only while every request is suspended *)
(* at an await and the sweep is asleep, and never past a pending deadline  *)
(* or the sweep's wake-up time.                                            *)
(***************************************************************************)
EXTENDS Integers, Sequences, FiniteSets, TLC

\* ---- program constants ----
DEFAULT_TIMEOUT == 25
MAX_TIMEOUT == 55
STALE_AFTER == 600
SWEEP_SLEEP == 300

\* ---- bounds of the model ----
MaxTime == 960
MaxRequests == 2
\* requests arrive at the multiples of ArrivalPeriod
ArrivalPeriod == 300

\* the server threads that handle requests concurrently
Workers == {"w1", "w2"}
\* the requests, numbered in order of arrival
Slots == 1..MaxRequests
DefaultAsset == "CHFJPY_otc"
Assets == {"CHFJPY_otc", "EURUSD_otc"}
\* the requests the model sends: /candles (always the default asset) and
\* /api/candles/<asset> for another asset
Endpoints == {[route |-> "/candles", asset |-> DefaultAsset],
              [route |-> "/api/candles/<asset>", asset |-> "EURUSD_otc"]}

\* the timeout query parameter: absent, or an integer
NoParam == [given |-> FALSE, value |-> 0]
TimeoutParams == {NoParam, [given |-> TRUE, value |-> 10], [given |-> TRUE, value |-> 1000]}

\* what the external client.connect() can do when it resolves
ConnectOutcomes == {"ok", "notok", "TimeoutError", "Exception"}
\* what the external client.get_candles() can do when it resolves; a candle is
\* opaque to this layer
CandleResults == {<<>>, <<"c1", "c2">>}
FetchOutcomes == [kind : {"return"}, candles : CandleResults]
                   \cup {[kind |-> "TimeoutError", candles |-> <<>>],
                         [kind |-> "Exception", candles |-> <<>>]}

VARIABLES
    now,              \* time.time()
    connection_pool,  \* asset -> [client, connected, last_used]
    pool_keys,        \* the dict's keys in insertion order
    req,              \* per request, in order of arrival: its thread's state
    nreq,             \* requests started so far
    health,           \* the last /health response not yet delivered
    sweepPc,          \* cleanup_connections: "sleep", "scan", "delete", "dead"
    current_time,     \* cleanup_connections' local current_time
    stale_connections,\* cleanup_connections' local list
    iterKeys,         \* keys the dict iterator has still to yield
    iterLen,          \* size of the dict when the iterator was created
    wake,             \* when asyncio.sleep(300) returns
    passPool,         \* history: the pool when the current pass began
    passClean         \* history: no request wrote the pool during the pass

vars == <<now, connection_pool, pool_keys, req, nreq, health, sweepPc, current_time,
          stale_connections, iterKeys, iterLen, wake, passPool, passClean>>

sweepVars == <<sweepPc, current_time, stale_connections, iterKeys, iterLen, wake>>

\* ---- helpers ----
Range(s) == {s[i] : i \in 1..Len(s)}

Remove(s, a) == SelectSeq(s, LAMBDA x : x # a)

EmptyPool == [k \in {} |-> 0]

\* mutant: an entry that is already there is kept (first writer wins)
PoolPutFirstWins(p, a, e) == [k \in (DOMAIN p) \cup {a} |-> IF k \in DOMAIN p THEN p[k] ELSE e]

\* connection_pool[asset] = {...}
PoolPut(p, a, e) == [k \in (DOMAIN p) \cup {a} |-> IF k = a THEN e ELSE p[k]]

\* del connection_pool[asset]
PoolDel(p, a) == [k \in (DOMAIN p) \ {a} |-> p[k]]

KeysPut(ks, a) == IF a \in Range(ks) THEN ks ELSE Append(ks, a)

\* request.args.get(name, default, type=int)
Arg(q, default) == IF q.given THEN q.value ELSE default

\* mutant: the clamp of lines 111-112 is missing
CustomTimeoutNoClamp(q) == Arg(q, DEFAULT_TIMEOUT)

\* lines 109-112
CustomTimeout(q) ==
    LET custom_timeout == Arg(q, DEFAULT_TIMEOUT)
    IN  IF custom_timeout > MAX_TIMEOUT THEN MAX_TIMEOUT ELSE custom_timeout

NoResp == [code |-> 0, body |-> [status |-> "none"]]

\* lines 148-152 / 164-169
SuccessBody(route, asset, candles) ==
    IF route = "/candles"
    THEN [status |-> "success", data |-> candles, count |-> Len(candles)]
    ELSE [status |-> "success", asset |-> asset, data |-> candles, count |-> Len(candles)]

\* lines 127-132
ErrorResponse(msg) ==
    [code |-> 500, body |-> [status |-> "error", message |-> msg, data |-> <<>>]]

\* mutant: `except Exception` stands before `except asyncio.TimeoutError`
TimeoutResponseAs500 == ErrorResponse("")

\* lines 121-126
TimeoutResponse ==
    [code |-> 408, body |-> [status |-> "error", message |-> "Request timed out", data |-> <<>>]]

\* mutant: an empty result is reported as an error
EndpointResponseEmptyIsError(route, asset, candles) ==
    IF candles = <<>>
    THEN ErrorResponse("No candles")
    ELSE [code |-> 200, body |-> SuccessBody(route, asset, candles)]

\* lines 148-152 / 164-169 through line 120: the endpoint after get_candle
\* returned `candles`
EndpointResponse(route, asset, candles) ==
    [code |-> 200, body |-> SuccessBody(route, asset, candles)]

IdleReq ==
    [pc |-> "idle", route |-> "/candles", asset |-> DefaultAsset, q |-> NoParam,
     timeout |-> 0, custom_timeout |-> 0, start |-> 0,
     path |-> "none", connects |-> 0, fetches |-> 0, awaiting |-> "none",
     candles |-> <<>>, outcome |-> "PENDING", failure |-> "none", resp |-> NoResp,
     loop |-> "none"]

InFlight(r) == r.pc \notin {"idle", "done", "gone"}

\* mutant: the deadline is applied to get_candles() only
AwaitingFetchOnly(r) == r.pc = "fetching"

\* the request is suspended in connect() or get_candles()
Awaiting(r) == r.pc \in {"connecting", "fetching"}

\* the deadline asyncio.wait_for(f(...), timeout=custom_timeout) enforces
Deadline(r) == r.start + r.custom_timeout

\* The request has passed its last await: the deadline cannot expire any more
\* and the timeout parameters are not read again
Settled(r) ==
    [r EXCEPT !.awaiting = "none", !.q = NoParam, !.timeout = 0, !.custom_timeout = 0,
              !.start = 0]

\* mutant: no `finally`, the loop is left open
LoopLeftOpen(r) == r

\* lines 133-134: `finally: loop.close()`
LoopClose(r) == [r EXCEPT !.loop = "closed"]

\* get_candle returned `data` (lines 59, 73, 76, 82, 85); the endpoint answers.
\* `failure` records what get_candle caught or was told, "none" on lines 73, 76.
Return(r, data, outcome, failure) ==
    LoopClose([Settled(r) EXCEPT !.pc = "done", !.outcome = outcome, !.failure = failure,
                                 !.resp = EndpointResponse(r.route, r.asset, data)])

\* an exception left get_candle; wrapped's `except Exception` answers 500
Raise(r, msg) ==
    LoopClose([Settled(r) EXCEPT !.pc = "done", !.outcome = "FAILED", !.failure = msg,
                                 !.resp = ErrorResponse(msg)])

\* line 50: client_instance = client; client_instance.connect() is called
CallConnect(r) ==
    [r EXCEPT !.pc = "connecting", !.path = "connect", !.connects = @ + 1,
              !.awaiting = "connect"]

\* lines 62-66: client_instance.get_candles(...) is called
CallGetCandles(r) ==
    [r EXCEPT !.pc = "fetching", !.fetches = @ + 1, !.awaiting = "get_candles"]

\* A finished response is handed to its client before any other step: the
\* hand-over touches no shared state, so taking it first loses no behaviour
Delivered == health = NoResp /\ \A s \in Slots : req[s].pc # "done"

\* Every thread is suspended: the requests at an await, the sweep in its sleep.
\* Local computation takes no time, so this is what an arriving request finds.
Quiet ==
    /\ Delivered
    /\ \A s \in Slots : ~InFlight(req[s]) \/ Awaiting(req[s])
    /\ sweepPc \in {"sleep", "dead"}

\* a request's write to the pool spoils the pass the sweep is in
Spoil == IF sweepPc \in {"scan", "delete"} THEN FALSE ELSE passClean

Init ==
    /\ now = 0
    /\ connection_pool = EmptyPool
    /\ pool_keys = <<>>
    /\ req = [s \in Slots |-> IdleReq]
    /\ nreq = 0
    /\ health = NoResp
    /\ sweepPc = "sleep"
    /\ current_time = 0
    /\ stale_connections = <<>>
    /\ iterKeys = <<>>
    /\ iterLen = 0
    /\ wake = 0
    /\ passPool = EmptyPool
    /\ passClean = TRUE

\* ---- the request path: wrapped() -> endpoint -> get_candle ----

\* mutant: the pooled session is never taken
ConnectedNever(p, a) == FALSE

\* mutant: every entry found is taken, whatever its connected flag
ConnectedIgnored(p, a) == TRUE

\* line 44, second operand: connection_pool[asset]['connected']
Connected(p, a) == p[a].connected

\* mutant: >= for >
IsStaleAtThreshold(ct, last_used) == ct - last_used >= STALE_AFTER

\* line 190: the staleness test of the sweep
IsStale(ct, last_used) == ct - last_used > STALE_AFTER

\* line 213: the number /health reports
HealthConnections(p) == Cardinality(DOMAIN p)

\* lines 107-119 and 140-147 / 156-163 and line 44 (first operand): a request
\* arrives on a free server thread; wrapped() clamps the timeout, creates the
\* event loop of the request (line 114) and runs the endpoint in it; the endpoint
\* reads the parameters and calls get_candle, which tests `asset in
\* connection_pool` and, when it is not, calls connect()
StartRequest(s, e, q) ==
    /\ Quiet
    /\ s = nreq + 1
    /\ Cardinality({t \in Slots : InFlight(req[t])}) < Cardinality(Workers)
    /\ now % ArrivalPeriod = 0
    /\ now + MAX_TIMEOUT <= MaxTime
    /\ LET r == [IdleReq EXCEPT !.route = e.route, !.asset = e.asset, !.q = q,
                                !.timeout = Arg(q, DEFAULT_TIMEOUT),
                                !.custom_timeout = CustomTimeout(q),
                                !.start = now, !.loop = "open"]
       IN  req' = [req EXCEPT ![s] = IF e.asset \in DOMAIN connection_pool
                                     THEN [r EXCEPT !.pc = "L44"]
                                     ELSE CallConnect(r)]
    /\ nreq' = nreq + 1
    /\ UNCHANGED <<now, connection_pool, pool_keys, health, sweepVars, passPool, passClean>>

\* line 44, second operand, then line 46 and 63, or line 49-50; a KeyError
\* (the sweep deleted the entry meanwhile) is caught at line 83
CheckConnected(s) ==
    /\ Delivered
    /\ req[s].pc = "L44"
    /\ LET r == req[s]
       IN  req' = [req EXCEPT ![s] =
                     IF r.asset \notin DOMAIN connection_pool
                     THEN Return(r, <<>>, "FAILED", "KeyError at line 44")
                     ELSE IF Connected(connection_pool, r.asset)
                          THEN CallGetCandles([r EXCEPT !.path = "reuse"])
                          ELSE CallConnect(r)]
    /\ UNCHANGED <<now, connection_pool, pool_keys, nreq, health, sweepVars, passPool, passClean>>

\* lines 50-59 and 77, 83: connect() resolves before the deadline
ConnectReturns(s, outcome) ==
    /\ Delivered
    /\ req[s].pc = "connecting"
    /\ now < Deadline(req[s])
    /\ LET r == req[s]
       IN  /\ req' = [req EXCEPT ![s] =
                        CASE outcome = "ok" -> CallGetCandles(r)
                          [] outcome = "notok" -> Return(r, <<>>, "FAILED", "connect: not ok")
                          [] outcome = "TimeoutError" ->
                               [Settled(r) EXCEPT !.pc = "L80", !.failure = "connect: TimeoutError"]
                          [] OTHER -> Return(r, <<>>, "FAILED", "connect: Exception")]
           /\ IF outcome = "ok"
              THEN /\ connection_pool' = PoolPut(connection_pool, r.asset,
                                            [client |-> "client", connected |-> TRUE, last_used |-> now])
                   /\ pool_keys' = KeysPut(pool_keys, r.asset)
                   /\ passClean' = Spoil
              ELSE UNCHANGED <<connection_pool, pool_keys, passClean>>
    /\ UNCHANGED <<now, nreq, health, sweepVars, passPool>>

\* lines 63-66 and 77, 83: get_candles() resolves before the deadline
GetCandlesReturns(s, o) ==
    /\ Delivered
    /\ req[s].pc = "fetching"
    /\ now < Deadline(req[s])
    /\ LET r == req[s]
       IN  req' = [req EXCEPT ![s] =
                     CASE o.kind = "return" -> [Settled(r) EXCEPT !.pc = "L69", !.candles = o.candles]
                       [] o.kind = "TimeoutError" ->
                            [Settled(r) EXCEPT !.pc = "L80", !.failure = "get_candles: TimeoutError"]
                       [] OTHER -> Return(r, <<>>, "FAILED", "get_candles: Exception")]
    /\ UNCHANGED <<now, connection_pool, pool_keys, nreq, health, sweepVars, passPool, passClean>>

\* line 69: `if asset in connection_pool`; when it is not, lines 72-76
TouchCheck(s) ==
    /\ Delivered
    /\ req[s].pc = "L69"
    /\ LET r == req[s]
       IN  req' = [req EXCEPT ![s] = IF r.asset \in DOMAIN connection_pool
                                     THEN [r EXCEPT !.pc = "L70"]
                                     ELSE Return(r, r.candles, "SUCCEEDED", "none")]
    /\ UNCHANGED <<now, connection_pool, pool_keys, nreq, health, sweepVars, passPool, passClean>>

\* mutant: last_used is not updated after a retrieval
TouchMissing(p, a, t) == p

\* line 70: connection_pool[asset]['last_used'] = time.time()
Touch(p, a, t) == [p EXCEPT ![a].last_used = t]

\* line 70, then lines 72-76; the KeyError of a deleted entry is caught at line 83
TouchWrite(s) ==
    /\ Delivered
    /\ req[s].pc = "L70"
    /\ LET r == req[s]
       IN  IF r.asset \in DOMAIN connection_pool
           THEN /\ connection_pool' = Touch(connection_pool, r.asset, now)
                /\ req' = [req EXCEPT ![s] = Return(r, r.candles, "SUCCEEDED", "none")]
                /\ passClean' = Spoil
           ELSE /\ req' = [req EXCEPT ![s] = Return(r, <<>>, "FAILED", "KeyError at line 70")]
                /\ UNCHANGED <<connection_pool, passClean>>
    /\ UNCHANGED <<now, pool_keys, nreq, health, sweepVars, passPool>>

\* lines 77-80: `except TimeoutError`, `if asset in connection_pool`; else line 82
MarkCheck(s) ==
    /\ Delivered
    /\ req[s].pc = "L80"
    /\ LET r == req[s]
       IN  req' = [req EXCEPT ![s] = IF r.asset \in DOMAIN connection_pool
                                     THEN [r EXCEPT !.pc = "L81"]
                                     ELSE Return(r, <<>>, "TIMED_OUT", r.failure)]
    /\ UNCHANGED <<now, connection_pool, pool_keys, nreq, health, sweepVars, passPool, passClean>>

\* lines 81-82; a KeyError raised inside the handler leaves get_candle and
\* reaches wrapped's `except Exception`
MarkWrite(s) ==
    /\ Delivered
    /\ req[s].pc = "L81"
    /\ LET r == req[s]
       IN  IF r.asset \in DOMAIN connection_pool
           THEN /\ connection_pool' = [connection_pool EXCEPT ![r.asset].connected = FALSE]
                /\ req' = [req EXCEPT ![s] = Return(r, <<>>, "TIMED_OUT", r.failure)]
                /\ passClean' = Spoil
           ELSE /\ req' = [req EXCEPT ![s] = Raise(r, "KeyError")]
                /\ UNCHANGED <<connection_pool, passClean>>
    /\ UNCHANGED <<now, pool_keys, nreq, health, sweepVars, passPool>>

\* lines 117-126: the deadline of asyncio.wait_for(f(...), custom_timeout)
\* passes while get_candle is suspended in connect() or get_candles(); the
\* operation is cancelled and wrapped answers 408.  (The inner wait_for of
\* lines 50 and 63 is armed later with timeout >= custom_timeout, so its own
\* timer never comes first.)
DeadlineExpires(s) ==
    /\ Delivered
    /\ Awaiting(req[s])
    /\ now >= Deadline(req[s])
    /\ req' = [req EXCEPT ![s] = LoopClose([@ EXCEPT !.pc = "done", !.outcome = "TIMED_OUT",
                                                     !.failure = "deadline",
                                                     !.resp = TimeoutResponse])]
    /\ UNCHANGED <<now, connection_pool, pool_keys, nreq, health, sweepVars, passPool, passClean>>

\* lines 209-215
health_check ==
    /\ Quiet
    /\ health' = [code |-> 200,
                  body |-> [status |-> "healthy",
                            connections |-> HealthConnections(connection_pool),
                            uptime |-> now]]
    /\ UNCHANGED <<now, connection_pool, pool_keys, req, nreq, sweepVars, passPool, passClean>>

\* lines 120, 126, 132-134: wrapped() returns the response; the server thread is free
Deliver(s) ==
    /\ req[s].pc = "done"
    /\ req' = [req EXCEPT ![s] = [IdleReq EXCEPT !.pc = "gone", !.loop = req[s].loop]]
    /\ UNCHANGED <<now, connection_pool, pool_keys, nreq, health, sweepVars, passPool, passClean>>

\* the /health response is delivered to its caller
HealthDelivered ==
    /\ health # NoResp
    /\ health' = NoResp
    /\ UNCHANGED <<now, connection_pool, pool_keys, req, nreq, sweepVars, passPool, passClean>>

\* ---- the sweep thread: cleanup_connections ----

\* lines 185-188: a pass begins; the dict iterator is created
SweepBegin ==
    /\ Delivered
    /\ sweepPc = "sleep"
    /\ now >= wake
    /\ sweepPc' = "scan"
    /\ current_time' = now
    /\ stale_connections' = <<>>
    /\ iterKeys' = pool_keys
    /\ iterLen' = Len(pool_keys)
    /\ passPool' = connection_pool
    /\ passClean' = TRUE
    /\ UNCHANGED <<now, connection_pool, pool_keys, req, nreq, health, wake>>

\* lines 188-191: one turn of the for loop.  The iterator raises RuntimeError
\* when the dict changed size since it was created; the task then ends.
SweepVisit ==
    /\ Delivered
    /\ sweepPc = "scan"
    /\ IF Len(pool_keys) # iterLen
       THEN /\ sweepPc' = "dead"
            /\ UNCHANGED <<stale_connections, iterKeys>>
       ELSE IF iterKeys = <<>>
            THEN /\ sweepPc' = "delete"
                 /\ UNCHANGED <<stale_connections, iterKeys>>
            ELSE /\ stale_connections' =
                       IF IsStale(current_time, connection_pool[Head(iterKeys)].last_used)
                       THEN Append(stale_connections, Head(iterKeys))
                       ELSE stale_connections
                 /\ iterKeys' = Tail(iterKeys)
                 /\ UNCHANGED sweepPc
    /\ UNCHANGED <<now, connection_pool, pool_keys, req, nreq, health, current_time,
                   iterLen, wake, passPool, passClean>>

\* lines 194-199: one turn of the deletion loop, or the sleep after it
SweepDelete ==
    /\ Delivered
    /\ sweepPc = "delete"
    /\ IF stale_connections = <<>>
       THEN /\ sweepPc' = "sleep"
            /\ wake' = now + SWEEP_SLEEP
            /\ passPool' = EmptyPool
            /\ UNCHANGED <<connection_pool, pool_keys, stale_connections>>
       ELSE IF Head(stale_connections) \in DOMAIN connection_pool
            THEN /\ connection_pool' = PoolDel(connection_pool, Head(stale_connections))
                 /\ pool_keys' = Remove(pool_keys, Head(stale_connections))
                 /\ stale_connections' = Tail(stale_connections)
                 /\ UNCHANGED <<sweepPc, wake, passPool>>
            ELSE /\ sweepPc' = "dead"
                 /\ UNCHANGED <<connection_pool, pool_keys, stale_connections, wake, passPool>>
    /\ UNCHANGED <<now, req, nreq, health, current_time, iterKeys, iterLen, passClean>>

\* ---- time ----

\* the instants the clock may not pass without the program acting
Timers ==
    {Deadline(req[s]) : s \in {x \in Slots : Awaiting(req[x])}}
      \cup (IF sweepPc = "sleep" THEN {wake} ELSE {})

\* the next instant at which requests arrive
NextArrival == ((now \div ArrivalPeriod) + 1) * ArrivalPeriod

Tick ==
    /\ Quiet
    /\ \E t \in Timers \cup {NextArrival} :
         /\ t > now
         /\ t <= MaxTime
         /\ \A d \in Timers : now < d /\ t <= d
         /\ now' = t
    /\ UNCHANGED <<connection_pool, pool_keys, req, nreq, health, sweepVars, passPool, passClean>>

Next ==
    \/ \E s \in Slots, e \in Endpoints, q \in TimeoutParams : StartRequest(s, e, q)
    \/ \E s \in Slots : CheckConnected(s)
    \/ \E s \in Slots, outcome \in ConnectOutcomes : ConnectReturns(s, outcome)
    \/ \E s \in Slots, o \in FetchOutcomes : GetCandlesReturns(s, o)
    \/ \E s \in Slots : TouchCheck(s)
    \/ \E s \in Slots : TouchWrite(s)
    \/ \E s \in Slots : MarkCheck(s)
    \/ \E s \in Slots : MarkWrite(s)
    \/ \E s \in Slots : DeadlineExpires(s)
    \/ \E s \in Slots : Deliver(s)
    \/ health_check
    \/ HealthDelivered
    \/ SweepBegin
    \/ SweepVisit
    \/ SweepDelete
    \/ Tick

Spec == Init /\ [][Next]_vars

\* ======================= the claims =======================

Min(a, b) == IF a < b THEN a ELSE b

\* the pool entries the pool may reuse
LiveEntries(p) == {a \in DOMAIN p : p[a].connected}

\* C1: a get_candle call that finds no pool entry for its asset calls
\* connect(); a get_candle call that finds the entry of its asset with
\* connected = TRUE calls get_candles at once and never calls connect().
C1_ReuseSkipsConnect ==
    [][\A s \in Slots :
         /\ (req[s].pc = "idle" /\ req'[s].pc # "idle"
               /\ req'[s].asset \notin DOMAIN connection_pool)
              => (req'[s].pc = "connecting" /\ req'[s].connects = 1 /\ req'[s].fetches = 0)
         /\ (req[s].pc = "L44" /\ req'[s].pc # "L44"
               /\ req[s].asset \in DOMAIN connection_pool
               /\ connection_pool[req[s].asset].connected)
              => (req'[s].pc = "fetching" /\ req'[s].path = "reuse"
                    /\ req'[s].connects = 0 /\ req'[s].fetches = 1)
         /\ (req[s].path = "reuse" /\ InFlight(req[s]))
              => (req'[s].connects = 0 /\ req'[s].path = "reuse")
      ]_vars

\* C1 witness: a request reuses the stored session: get_candles is called and
\* connect() was not.
C1_Witness ==
    \E s \in Slots : /\ req[s].pc = "fetching"
                     /\ req[s].path = "reuse"
                     /\ req[s].connects = 0
                     /\ req[s].asset \in LiveEntries(connection_pool)

\* what one pass at time ct makes of pool p
SweptPool(p, ct) ==
    [k \in {a \in DOMAIN p : ~(ct - p[a].last_used > 600)} |-> p[k]]

\* C2: a pass of the sweep that runs at time current_time on the pool (no
\* request writes the pool meanwhile) ends with exactly the entries with
\* current_time - last_used > 600 removed and every other entry as it was; an
\* entry at exactly 600 stays and connected plays no role.
C2_SweepRemovesExactlyStale ==
    [][(sweepPc = "delete" /\ sweepPc' = "sleep" /\ passClean)
         => connection_pool' = SweptPool(passPool, current_time)]_vars

\* C2 witness: a pass has scanned a pool of two entries, found one stale and
\* kept one whose age is exactly 600.
C2_Witness ==
    /\ sweepPc = "delete"
    /\ passClean
    /\ stale_connections # <<>>
    /\ \E a \in DOMAIN connection_pool :
         /\ a \notin Range(stale_connections)
         /\ current_time - connection_pool[a].last_used = 600

\* the request ended while the operation it awaited had not resolved
EndedUnresolved(r) == r.pc = "done" /\ r.awaiting # "none"

\* C3: a request whose connect() or get_candles() never resolves is answered
\* 408 {status: error, message: Request timed out, data: []} at the instant
\* its deadline expires, on both routes; never 200, never 500.
C3_UnresolvedGives408 ==
    \A s \in Slots :
        EndedUnresolved(req[s])
          => /\ req[s].resp.code = 408
             /\ req[s].resp.body = [status |-> "error", message |-> "Request timed out",
                                    data |-> <<>>]
             /\ now = req[s].start + req[s].custom_timeout

\* C3 witness: a request on /api/candles/<asset> timed out while connect()
\* was pending.
C3_Witness ==
    \E s \in Slots : /\ EndedUnresolved(req[s])
                     /\ req[s].awaiting = "connect"
                     /\ req[s].route = "/api/candles/<asset>"
                     /\ req[s].resp.code = 408

\* C4: the deadline a request runs under is min(timeout, 55), 25 when the
\* parameter is absent and 55 for timeout=1000; no request waits on its
\* operation for more than 55 seconds.
C4_DeadlineClamped ==
    \A s \in Slots :
        (req[s].pc \in {"L44", "connecting", "fetching"} \/ EndedUnresolved(req[s]))
          => /\ req[s].timeout = (IF req[s].q.given THEN req[s].q.value ELSE 25)
             /\ req[s].custom_timeout = Min(req[s].timeout, 55)
             /\ (req[s].q.given /\ req[s].q.value = 1000) => req[s].custom_timeout = 55
             /\ now - req[s].start <= req[s].custom_timeout
             /\ now - req[s].start <= 55

\* C4 witness: a request sent with timeout=1000 is answered 408 after 55 seconds.
C4_Witness ==
    \E s \in Slots : /\ EndedUnresolved(req[s])
                     /\ req[s].q = [given |-> TRUE, value |-> 1000]
                     /\ now - req[s].start = 55
                     /\ req[s].resp.code = 408

\* a step the program takes by itself: the clock, a thread resuming after a
\* synchronous statement, the deadline timer of lines 117-119, the sweep
Progress ==
    \/ Tick
    \/ SweepBegin \/ SweepVisit \/ SweepDelete
    \/ \E s \in Slots : \/ CheckConnected(s)
                        \/ TouchCheck(s) \/ TouchWrite(s)
                        \/ MarkCheck(s) \/ MarkWrite(s)
                        \/ DeadlineExpires(s)

\* The scheduling the code relies on: responses are sent, and the program is
\* not starved for ever by /health requests (strong fairness, since answering
\* one disables the other steps for a moment).  Nothing makes the external
\* connect() and get_candles() resolve.
Fairness ==
    /\ SF_vars(Progress)
    /\ WF_vars(HealthDelivered)
    /\ \A s \in Slots : WF_vars(Deliver(s))

SpecLive == Spec /\ Fairness

\* C5: when connect() or get_candles() raises a failure other than a timeout,
\* the endpoint answers 500 {status: error, message, data: []}.
C5_ExceptionGives500 ==
    \A s \in Slots :
        (req[s].pc = "done"
           /\ req[s].failure \in {"connect: Exception", "get_candles: Exception"})
          => /\ req[s].resp.code = 500
             /\ req[s].resp.body.status = "error"
             /\ req[s].resp.body.data = <<>>

\* the connect attempt of request r failed or timed out
ConnectFailed(r) ==
    /\ r.pc = "done"
    /\ \/ r.failure \in {"connect: not ok", "connect: TimeoutError"}
       \/ r.failure = "deadline" /\ r.awaiting = "connect"

\* C6: once a request whose connect attempt failed or timed out has ended, the
\* pool entry of its asset, if there is one, has connected = FALSE, and the
\* request fetched nothing and returned no candles.
C6_FailedConnectMarksEntry ==
    \A s \in Slots :
        ConnectFailed(req[s])
          => /\ req[s].asset \in DOMAIN connection_pool
                  => ~connection_pool[req[s].asset].connected
             /\ req[s].fetches = 0
             /\ req[s].resp.body.data = <<>>

\* C7: the connections value of every /health response is the number of pool
\* entries with connected = TRUE at the time of the call.
C7_HealthCountsLive ==
    health # NoResp
      => health.body.connections = Cardinality(LiveEntries(connection_pool))

\* get_candles() returned to request r
Fetched(r) == r.outcome = "SUCCEEDED" \/ r.failure = "KeyError at line 70"

\* C8: a request whose get_candles() returned an empty sequence is answered
\* 200 {status: success, count: 0, data: []}; every success envelope has
\* count = length of data.
C8_EmptyIsSuccess ==
    \A s \in Slots :
        req[s].pc = "done"
          => /\ (Fetched(req[s]) /\ req[s].candles = <<>>)
                  => /\ req[s].resp.code = 200
                     /\ req[s].resp.body.status = "success"
                     /\ req[s].resp.body.count = 0
                     /\ req[s].resp.body.data = <<>>
             /\ req[s].resp.code = 200
                  => /\ req[s].resp.body.status = "success"
                     /\ req[s].resp.body.count = Len(req[s].resp.body.data)

\* C8 witness: get_candles() returned [] on a fresh connection and the request
\* was answered 200 with count 0.
C8_Witness ==
    \E s \in Slots : /\ req[s].pc = "done"
                     /\ req[s].outcome = "SUCCEEDED"
                     /\ req[s].path = "connect"
                     /\ req[s].candles = <<>>
                     /\ req[s].resp.code = 200
                     /\ req[s].resp.body.count = 0

\* C9: every request that has started is eventually answered, whatever
\* connect() and get_candles() do, never resolving included.
C9_EveryRequestAnswered ==
    \A s \in Slots : InFlight(req[s]) ~> (req[s].pc = "done")

\* C9 witness: a request whose get_candles() never resolved has been answered.
C9_Witness ==
    \E s \in Slots : /\ req[s].pc = "done"
                     /\ req[s].awaiting = "get_candles"
                     /\ req[s].resp # NoResp

\* C10: a request ends in exactly one of SUCCEEDED, FAILED, TIMED_OUT with
\* exactly one envelope: 200 success, 500 error, 408 timeout respectively.
C10_OutcomeEnvelope ==
    \A s \in Slots :
        req[s].pc = "done"
          => \/ req[s].outcome = "SUCCEEDED" /\ req[s].resp.code = 200
             \/ req[s].outcome = "FAILED" /\ req[s].resp.code = 500
             \/ req[s].outcome = "TIMED_OUT" /\ req[s].resp.code = 408

\* the event loops created at line 114 and not closed
OpenLoops == {s \in Slots : req[s].loop = "open"}

\* C11: the event loop of a request is open exactly while the request is in
\* flight: it is closed before the response is returned on every exit path
\* (200, 408, 500), so no loop is open when no request is in flight.
C11_LoopClosedOnExit ==
    /\ OpenLoops = {s \in Slots : InFlight(req[s])}
    /\ \A s \in Slots : req[s].pc \in {"done", "gone"} => req[s].loop = "closed"

\* C11 witness: one request has been answered and left, another has just been
\* answered 500 through `except Exception`; both loops are closed.
C11_Witness ==
    \E s, t \in Slots : /\ req[s].pc = "gone" /\ req[s].loop = "closed"
                        /\ req[t].pc = "done" /\ req[t].resp.code = 500
                        /\ req[t].loop = "closed"
                        /\ OpenLoops = {}

\* line 44: what the next get_candle call for asset a would find reusable
Reusable(p, a) == a \in DOMAIN p /\ Connected(p, a)

\* C12: a request calls connect() at most once and get_candles() at most once;
\* and when a request whose connect attempt failed or timed out is the last one
\* to end, the pool offers no session of its asset for reuse, so that the next
\* request for the asset connects afresh.
C12_NoRetryFreshConnect ==
    \A s \in Slots :
        /\ req[s].connects <= 1
        /\ req[s].fetches <= 1
        /\ (ConnectFailed(req[s]) /\ \A t \in Slots \ {s} : ~InFlight(req[t]))
              => ~Reusable(connection_pool, req[s].asset)

\* C12, first half alone: no request calls connect() or get_candles() twice.
C12_AtMostOnce ==
    \A s \in Slots : req[s].connects <= 1 /\ req[s].fetches <= 1

\* the keys the pool holds before and after a step
Kept == (DOMAIN connection_pool) \cap (DOMAIN connection_pool')

\* C13: a request whose get_candles() returned, an empty sequence included,
\* leaves last_used = now in the entry of its asset when it ends with the entry
\* in the pool; a request on a reused session that fails or times out changes
\* no last_used; and last_used of an entry changes only by a step of a request
\* for that very asset (the touch of line 70 or the insert of lines 52-56).
C13_LastUsedTouched ==
    [][\A s \in Slots :
         /\ (req[s].pc \in {"L69", "L70"} /\ req'[s].outcome = "SUCCEEDED"
               /\ req[s].asset \in DOMAIN connection_pool')
              => connection_pool'[req[s].asset].last_used = now
         /\ (req[s].path = "reuse" /\ req'[s] # req[s]
               /\ req'[s].outcome \in {"FAILED", "TIMED_OUT"})
              => \A a \in Kept : connection_pool'[a].last_used = connection_pool[a].last_used
         /\ req'[s] # req[s]
              => \A a \in Kept \ {req[s].asset} :
                    connection_pool'[a].last_used = connection_pool[a].last_used
      ]_vars

\* C13 witness: a request reused a session at a later time, get_candles()
\* returned [] and the entry's last_used is the time of the retrieval.
C13_Witness ==
    \E s \in Slots : /\ req[s].pc = "done"
                     /\ req[s].path = "reuse"
                     /\ req[s].outcome = "SUCCEEDED"
                     /\ req[s].candles = <<>>
                     /\ now > 0
                     /\ req[s].asset \in DOMAIN connection_pool
                     /\ connection_pool[req[s].asset].last_used = now

\* C14: a request calls get_candles() only in the step in which it found an
\* entry of its asset with connected = TRUE, or in the step in which its own
\* connect() returned ok; and an entry with connected = FALSE stays under its
\* key with connected = FALSE until a connect() that returned ok replaces it or
\* the sweep deletes it.
C14_DeadSessionNotReused ==
    [][/\ \A s \in Slots :
            req'[s].fetches > req[s].fetches
              => \/ req[s].pc = "L44" /\ req[s].asset \in LiveEntries(connection_pool)
                 \/ /\ req[s].pc = "connecting" /\ req[s].connects = 1
                    /\ req[s].asset \in LiveEntries(connection_pool')
       /\ \A a \in DOMAIN connection_pool :
            ~connection_pool[a].connected
              => \/ a \in DOMAIN connection_pool' /\ ~connection_pool'[a].connected
                 \/ a \notin DOMAIN connection_pool' /\ sweepPc = "delete"
                 \/ /\ a \in LiveEntries(connection_pool')
                    /\ \E s \in Slots : /\ req[s].asset = a
                                         /\ req[s].pc = "connecting"
                                         /\ req'[s].pc = "fetching"
      ]_vars

\* C14 witness: a later request found the entry of its asset with
\* connected = FALSE and is connecting afresh, the entry still in place.
C14_Witness ==
    \E s \in Slots : /\ req[s].pc = "connecting"
                     /\ req[s].start > 0
                     /\ \A t \in Slots \ {s} : req[t].pc = "gone"
                     /\ req[s].asset \in DOMAIN connection_pool
                     /\ ~connection_pool[req[s].asset].connected

\* C15: the sweep task never ends: it is always asleep with a wake-up time at
\* most 300 s ahead, or in a pass, whatever the request handlers do to the
\* pool while a pass iterates over it.
C15_SweepRunsForever ==
    /\ sweepPc \in {"sleep", "scan", "delete"}
    /\ sweepPc = "sleep" => wake <= now + SWEEP_SLEEP

\* the write of the step that request s takes, applied to entry e of its asset
Written(s, e) ==
    CASE req[s].pc = "connecting" /\ req'[s].pc = "fetching" ->
           [client |-> "client", connected |-> TRUE, last_used |-> now]
      [] req[s].pc = "L70" /\ req'[s].outcome = "SUCCEEDED" -> [e EXCEPT !.last_used = now]
      [] req[s].pc = "L81" /\ req'[s].outcome = "TIMED_OUT" -> [e EXCEPT !.connected = FALSE]
      [] OTHER -> e

C17_OneSessionPerAsset ==
    \A a, b \in DOMAIN connection_pool :
        a # b => connection_pool[a].client # connection_pool[b].client

\* C18: a request whose get_candles() returned and which ends with the entry
\* of its asset deleted by the sweep answers 200 with the candles that
\* get_candles() returned.
C18_SweepKeepsOutcome ==
    \A s \in Slots :
        (req[s].pc = "done" /\ Fetched(req[s])
           /\ req[s].asset \notin DOMAIN connection_pool)
          => /\ req[s].resp.code = 200
             /\ req[s].resp.body.data = req[s].candles

\* the longest an untouched entry may stay: threshold plus one sweep interval
RemovedBy == STALE_AFTER + SWEEP_SLEEP

\* C19: while the sweep task is alive no entry stays in the pool more than
\* 900 s after its last_used, and no step removes an entry whose last_used is
\* 600 s old or less.
C19_RemovedWhenStaleOnly ==
    [][/\ sweepPc' # "dead"
            => \A a \in DOMAIN connection_pool' :
                  now' - connection_pool'[a].last_used <= RemovedBy
       /\ \A a \in (DOMAIN connection_pool) \ (DOMAIN connection_pool') :
            now - connection_pool[a].last_used > STALE_AFTER
      ]_vars

\* C19, first half alone: with the sweep task alive, every entry in the pool
\* was used at most 900 s ago.
C19_RemovedBy900 ==
    sweepPc # "dead"
      => \A a \in DOMAIN connection_pool : now - connection_pool[a].last_used <= RemovedBy

====
